---- MODULE Spec2Model ----
(***************************************************************************)
(* asset-pack-rs: unpack (bin archive -> text) and pack (text -> bin       *)
(* archive), src/src/unpacker.rs (duplicated verbatim in src/src/main.rs). *)
(*                                                                         *)
(* Strings are sequences of one-character strings, so that trim,           *)
(* starts_with, slicing, split, join, hex formatting and hex decoding are  *)
(* computed character by character as the code computes them.              *)
(***************************************************************************)
EXTENDS Integers, Sequences, FiniteSets, TLC

\* ------------------------------------------------------------------ bounds
MaxWords == 2
MaxLines == 4

\* --------------------------------------------------------------- constants
WordSize == 4
HexWordBytes == 4

\* ------------------------------------------------------------ str helpers
IsWhite(c) == c \in {" ", "\t"}

RECURSIVE TrimStart(_)
TrimStart(s) ==
    IF s = <<>> THEN s
    ELSE IF IsWhite(Head(s)) THEN TrimStart(Tail(s)) ELSE s

RECURSIVE TrimEnd(_)
TrimEnd(s) ==
    IF s = <<>> THEN s
    ELSE IF IsWhite(s[Len(s)]) THEN TrimEnd(SubSeq(s, 1, Len(s) - 1)) ELSE s

\* str::trim
Trim(s) == TrimEnd(TrimStart(s))

\* str::starts_with
StartsWith(s, p) == Len(s) >= Len(p) /\ SubSeq(s, 1, Len(p)) = p

\* &s[n..]
SliceFrom(s, n) == SubSeq(s, n + 1, Len(s))

\* text.split("\n"): a sequence of at least one line
RECURSIVE SplitFrom(_, _, _)
SplitFrom(text, cur, acc) ==
    IF text = <<>> THEN Append(acc, cur)
    ELSE IF Head(text) = "\n"
         THEN SplitFrom(Tail(text), <<>>, Append(acc, cur))
         ELSE SplitFrom(Tail(text), Append(cur, Head(text)), acc)

Split(text) == SplitFrom(text, <<>>, <<>>)

\* lines.join("\n")
RECURSIVE Join(_)
Join(ls) ==
    IF ls = <<>> THEN <<>>
    ELSE IF Len(ls) = 1 THEN ls[1]
    ELSE ls[1] \o <<"\n">> \o Join(Tail(ls))

\* format!("{}", n) of a usize
DecDigits == <<"0", "1", "2", "3", "4", "5", "6", "7", "8", "9">>

RECURSIVE Dec(_)
Dec(n) == IF n < 10 THEN <<DecDigits[n + 1]>>
          ELSE Dec(n \div 10) \o <<DecDigits[(n % 10) + 1]>>

UpperHex == <<"0", "1", "2", "3", "4", "5", "6", "7",
              "8", "9", "A", "B", "C", "D", "E", "F">>

\* format!("{:02X}", b)
FormatByte(b) == <<UpperHex[(b \div 16) + 1], UpperHex[(b % 16) + 1]>>

\* format!("0x{:02X}{:02X}{:02X}{:02X}", data[0], data[1], data[2], data[3])
FormatHexWord(data) ==
    <<"0", "x">> \o FormatByte(data[1]) \o FormatByte(data[2])
                 \o FormatByte(data[3]) \o FormatByte(data[4])

\* char::to_digit(16); -1 when the character is no hex digit
DigitVal(c) ==
    CASE c = "0" -> 0  [] c = "1" -> 1  [] c = "2" -> 2  [] c = "3" -> 3
      [] c = "4" -> 4  [] c = "5" -> 5  [] c = "6" -> 6  [] c = "7" -> 7
      [] c = "8" -> 8  [] c = "9" -> 9
      [] c \in {"A", "a"} -> 10 [] c \in {"B", "b"} -> 11
      [] c \in {"C", "c"} -> 12 [] c \in {"D", "d"} -> 13
      [] c \in {"E", "e"} -> 14 [] c \in {"F", "f"} -> 15
      [] OTHER -> -1

\* u8::from_str_radix(pair, 16) of a two-character string; -1 is Err.
\* A leading '+' is accepted by from_str_radix, a leading '-' is not.
ParseByte(pair) ==
    IF pair[1] = "+"
    THEN DigitVal(pair[2])
    ELSE IF DigitVal(pair[1]) < 0 \/ DigitVal(pair[2]) < 0 THEN -1
         ELSE 16 * DigitVal(pair[1]) + DigitVal(pair[2])

\* decode_hex: [ok |-> FALSE] or [ok |-> TRUE, bytes |-> <<...>>]
decode_hex(s) ==
    IF Len(s) % 2 # 0
    THEN [ok |-> FALSE, bytes |-> <<>>]
    ELSE LET n == Len(s) \div 2
             bs == [j \in 1..n |-> ParseByte(SubSeq(s, 2 * j - 1, 2 * j))]
         IN IF \E j \in 1..n : bs[j] < 0
            THEN [ok |-> FALSE, bytes |-> <<>>]
            ELSE [ok |-> TRUE, bytes |-> bs]

\* line prefixes
P_DEST == <<"D", "E", "S", "T", ":">>
P_SRC == <<"S", "R", "C", ":">>
P_LABEL == <<"L", "A", "B", "E", "L", ":">>
P_HEX == <<"0", "x">>

\* format!("DEST: {}", id), format!("SRC: {}", id), format!("LABEL: {}", label)
FmtDest(id) == P_DEST \o <<" ">> \o Dec(id)
FmtSrc(id) == P_SRC \o <<" ">> \o Dec(id)
FmtLabel(label) == P_LABEL \o <<" ">> \o label

\* ------------------------------------------------------- container (mila)
\* A BinArchive: `size` bytes of data in 4-byte words, and the pointer, string
\* and label side tables keyed by address.  A map is a function whose DOMAIN
\* is its key set.
EmptyMap == [x \in {} |-> 0]

MapPut(m, key, v) == [x \in (DOMAIN m) \cup {key} |-> IF x = key THEN v ELSE m[x]]

WordAddrs(sz) == {a \in 0..sz : a % WordSize = 0 /\ a < sz}

ZeroWord == <<0, 0, 0, 0>>

\* BinArchive::new() followed by allocate_at_end(sz)
NewArchive(sz) ==
    [size |-> sz,
     data |-> [a \in WordAddrs(sz) |-> ZeroWord],
     ptr |-> EmptyMap,
     text |-> EmptyMap,
     labels |-> EmptyMap]

\* archive.read_pointer(addr): Some(target) iff addr is in the pointer table
HasPointer(ar, a) == a \in DOMAIN ar.ptr

\* archive.read_string(addr)
HasString(ar, a) == a \in DOMAIN ar.text

\* archive.read_labels(addr)
HasLabels(ar, a) == a \in DOMAIN ar.labels

\* A side-table write (string, label, pointer target) the container is sure
\* to take is accepted; one outside the allocated words may be accepted or
\* rejected with a container error.
ContainerAccepts(inBounds) == IF inBounds THEN {TRUE} ELSE BOOLEAN

\* ------------------------------------------------------------ input sets
S_hi == <<"h", "i">>
S_dest == <<" ", "D", "E", "S", "T", ":", " ", "0">>
StringSet == {S_hi, <<>>, S_dest}

DataSet == {<<222, 173, 190, 239>>, <<0, 1, 10, 255>>}

LabelSet == {<<>>, << <<"b">>, <<"a">> >>}

\* pointer targets: every word address, one address that is not word
\* aligned, and the first address past the data
Targets(sz) == WordAddrs(sz) \cup {2, sz}

Cells(sz) ==
    [kind : {"ptr"}, target : Targets(sz), labels : LabelSet]
    \cup [kind : {"str"}, s : StringSet, labels : LabelSet]
    \cup [kind : {"data"}, bytes : DataSet, labels : LabelSet]

IndexOf(a) == (a \div WordSize) + 1

\* the archive whose j-th word is cells[j]; a word is a pointer, a string
\* or plain data, and carries labels independently of that
MkArchive(cells) ==
    LET sz == WordSize * Len(cells)
        A == WordAddrs(sz)
        c(a) == cells[IndexOf(a)]
    IN [size |-> sz,
        data |-> [a \in A |-> IF c(a).kind = "data" THEN c(a).bytes ELSE ZeroWord],
        ptr |-> [a \in {x \in A : c(x).kind = "ptr"} |-> c(a).target],
        text |-> [a \in {x \in A : c(x).kind = "str"} |-> c(a).s],
        labels |-> [a \in {x \in A : c(x).labels # <<>>} |-> c(a).labels]]

\* ------------------------------------------------------------------ state
VARIABLES
    pc,                    \* position of the driver
    round,                 \* 1: first unpack, 2: unpack of the packed archive
    archive,               \* unpack's input
    addr,                  \* unpack's loop variable
    pointers,              \* unpack: source address -> id
    pointer_destinations,  \* unpack: target address -> id
    lines,                 \* unpack: emitted lines
    origin,                \* history: address and slot of each emitted line
    input,                 \* history: the archive first given to unpack
    texts,                 \* the texts unpack returned, in order
    text,                  \* pack's input
    plines,                \* pack: trimmed lines
    i,                     \* pack: index of the line being written (1-based)
    size,                  \* pack: allocated size in bytes
    out,                   \* pack: the archive being built
    position,              \* pack: writer.tell()
    pack_pointers,         \* pack: id token -> address
    pointer_sources,       \* pack: pending <<address, id token>>
    k,                     \* pack: index into pointer_sources
    tells,                 \* history: what each written line found and did
    result                 \* pack's return value

vars == <<pc, round, archive, addr, pointers, pointer_destinations, lines,
          origin, input, texts, text, plines, i, size, out, position, pack_pointers,
          pointer_sources, k, tells, result>>

unpackVars == <<archive, addr, pointers, pointer_destinations, lines, origin,
                input>>

packVars == <<text, plines, i, size, out, position, pack_pointers,
              pointer_sources, k, tells, result>>

NoResult == [kind |-> "none"]

\* ----------------------------------------------------------------- unpack
\* mutant: ids start at 1
IdFor_FromOne(pd, ptr) ==
    IF ptr \in DOMAIN pd THEN pd[ptr] ELSE Cardinality(DOMAIN pd) + 1

\* mutant: no lookup of the target, every source gets a fresh id
IdFor_NoDedup(pd, ptr) == Cardinality(DOMAIN pd)

\* the id of target ptr: the one it has, or the next unused one
IdFor(pd, ptr) == IF ptr \in DOMAIN pd THEN pd[ptr] ELSE Cardinality(DOMAIN pd)

\* one iteration of the discovery loop
DiscoverStep ==
    /\ pc = "discover"
    /\ addr < archive.size
    /\ IF HasPointer(archive, addr)
       THEN LET ptr == archive.ptr[addr]
                id == IdFor(pointer_destinations, ptr)
            IN /\ pointer_destinations' = MapPut(pointer_destinations, ptr, id)
               /\ pointers' = MapPut(pointers, addr, id)
       ELSE UNCHANGED <<pointers, pointer_destinations>>
    /\ addr' = addr + WordSize
    /\ UNCHANGED <<pc, round, archive, lines, origin, input, texts>>
    /\ UNCHANGED packVars

DiscoverEnd ==
    /\ pc = "discover"
    /\ addr >= archive.size
    /\ pc' = "emit"
    /\ addr' = 0
    /\ UNCHANGED <<round, archive, pointers, pointer_destinations, lines,
                   origin, input, texts>>
    /\ UNCHANGED packVars

\* An emitted line is kept with the slot of the loop body that pushed it.
Emitted(slot, line) == [slot |-> slot, text |-> line]

\* the DEST line of an address, if any
DestLines(pd, a) ==
    IF a \in DOMAIN pd THEN <<Emitted("dest", FmtDest(pd[a]))>> ELSE <<>>

\* the LABEL lines of an address, in stored order
LabelLines(ar, a) ==
    IF HasLabels(ar, a)
    THEN [j \in 1..Len(ar.labels[a]) |-> Emitted("label", FmtLabel(ar.labels[a][j]))]
    ELSE <<>>

\* mutant: the string branch is missing
ContentLine_NoString(ar, ps, a) ==
    IF a \in DOMAIN ps THEN FmtSrc(ps[a])
    ELSE FormatHexWord(ar.data[a])

\* the content line of an address
ContentLine(ar, ps, a) ==
    IF a \in DOMAIN ps THEN FmtSrc(ps[a])
    ELSE IF HasString(ar, a) THEN ar.text[a]
    ELSE FormatHexWord(ar.data[a])

\* mutant: the labels are pushed before the DEST line
EmitAt_LabelsFirst(ar, ps, pd, a) ==
    LabelLines(ar, a) \o DestLines(pd, a)
        \o <<Emitted("content", ContentLine(ar, ps, a))>>

\* one iteration of the emission loop
EmitAt(ar, ps, pd, a) ==
    DestLines(pd, a) \o LabelLines(ar, a)
        \o <<Emitted("content", ContentLine(ar, ps, a))>>

EmitStep ==
    /\ pc = "emit"
    /\ addr < archive.size
    /\ LET e == EmitAt(archive, pointers, pointer_destinations, addr)
       IN /\ lines' = lines \o [j \in 1..Len(e) |-> e[j].text]
          /\ origin' = origin \o [j \in 1..Len(e) |-> [addr |-> addr, slot |-> e[j].slot]]
    /\ addr' = addr + WordSize
    /\ UNCHANGED <<pc, round, archive, pointers, pointer_destinations, input, texts>>
    /\ UNCHANGED packVars

UnpackReturn ==
    /\ pc = "emit"
    /\ addr >= archive.size
    /\ texts' = Append(texts, Join(lines))
    /\ pc' = IF round = 1 THEN "unpacked" ELSE "done"
    /\ UNCHANGED <<round, archive, addr, pointers, pointer_destinations, lines,
                   origin, input>>
    /\ UNCHANGED packVars

\* ------------------------------------------------------------------- pack
\* text.split("\n").map(|l| l.trim().to_owned()).collect()
PackLines(t) == LET raw == Split(t) IN [j \in 1..Len(raw) |-> Trim(raw[j])]

\* the filter of the size count
IsCounted(l) == ~StartsWith(l, P_LABEL) /\ ~StartsWith(l, P_DEST) /\ l # <<>>

\* size * 4
PackSize(ls) == WordSize * Cardinality({j \in 1..Len(ls) : IsCounted(ls[j])})

\* the branch of the write loop a line takes
LineKind(l) ==
    IF StartsWith(l, P_DEST) THEN "dest"
    ELSE IF StartsWith(l, P_SRC) THEN "src"
    ELSE IF StartsWith(l, P_LABEL) THEN "label"
    ELSE IF StartsWith(l, P_HEX) THEN "hex"
    ELSE "string"

\* mutant: the token of a DEST line is not trimmed
DestToken_NoTrim(l) == SliceFrom(l, 5)

\* (&line[5..]).trim(): the id token of a DEST line
DestToken(l) == Trim(SliceFrom(l, 5))

\* (&line[4..]).trim(): the id token of a SRC line
SrcToken(l) == Trim(SliceFrom(l, 4))

\* (&line[6..]).trim(): the name of a LABEL line
LabelName(l) == Trim(SliceFrom(l, 6))

\* mutant: the first DEST line of a token wins
RecordDest_KeepFirst(pp, tok, pos) ==
    IF tok \in DOMAIN pp THEN pp ELSE MapPut(pp, tok, pos)

\* pointers.insert(pointer_id, writer.tell())
RecordDest(pp, tok, pos) == MapPut(pp, tok, pos)

\* mutant: the loop index is reported as it is, 0-based
ErrLine_ZeroBased(j) == j - 1

\* the line number of a hex error message: i + 1 for the 0-based loop
\* index i of the code, which is the 1-based index j of the model
ErrLine(j) == j

\* whether the writer has a whole allocated word at its position
InBounds(ar, pos) == pos + WordSize <= ar.size

\* the cursor after a write of one word
Advance(pos) == pos + WordSize

PackStart ==
    /\ pc \in {"unpacked", "input"}
    /\ round = 1
    /\ text' = IF pc = "unpacked" THEN texts[Len(texts)] ELSE text
    /\ plines' = PackLines(text')
    /\ size' = PackSize(plines')
    /\ out' = NewArchive(size')
    /\ position' = 0
    /\ pack_pointers' = EmptyMap
    /\ pointer_sources' = <<>>
    /\ i' = 1
    /\ k' = 1
    /\ tells' = <<>>
    /\ result' = NoResult
    /\ pc' = "write"
    /\ UNCHANGED <<round, texts>>
    /\ UNCHANGED unpackVars

\* what no branch of the write loop changes
WriteFrame ==
    /\ UNCHANGED <<round, texts, text, plines, size>>
    /\ UNCHANGED unpackVars

Told(op, ok) == Append(tells, [line |-> i, at |-> position, op |-> op, ok |-> ok])

\* an early return Err(..) out of pack
Fail(res) ==
    /\ pc' = "failed"
    /\ result' = res
    /\ UNCHANGED <<i, k>>

WriteDest ==
    /\ pc = "write" /\ i <= Len(plines)
    /\ LineKind(plines[i]) = "dest"
    /\ pack_pointers' = RecordDest(pack_pointers, DestToken(plines[i]), position)
    /\ tells' = Told("dest", TRUE)
    /\ i' = i + 1
    /\ UNCHANGED <<pc, out, position, pointer_sources, k, result>>
    /\ WriteFrame

WriteSrc ==
    /\ pc = "write" /\ i <= Len(plines)
    /\ LineKind(plines[i]) = "src"
    /\ pointer_sources' = Append(pointer_sources, <<position, SrcToken(plines[i])>>)
    /\ IF InBounds(out, position)
       THEN /\ out' = [out EXCEPT !.data[position] = ZeroWord]
            /\ position' = Advance(position)
            /\ tells' = Told("u32", TRUE)
            /\ i' = i + 1
            /\ UNCHANGED <<pc, k, result>>
       ELSE /\ Fail([kind |-> "container", line |-> i])
            /\ tells' = Told("u32", FALSE)
            /\ UNCHANGED <<out, position>>
    /\ UNCHANGED pack_pointers
    /\ WriteFrame

WriteLabel ==
    /\ pc = "write" /\ i <= Len(plines)
    /\ LineKind(plines[i]) = "label"
    /\ \E accepted \in ContainerAccepts(position < out.size) :
         IF accepted
         THEN /\ out' = [out EXCEPT !.labels =
                            MapPut(@, position,
                                   Append(IF position \in DOMAIN @
                                          THEN @[position] ELSE <<>>,
                                          LabelName(plines[i])))]
              /\ tells' = Told("label", TRUE)
              /\ i' = i + 1
              /\ UNCHANGED <<pc, k, result>>
         ELSE /\ Fail([kind |-> "container", line |-> i])
              /\ tells' = Told("label", FALSE)
              /\ UNCHANGED out
    /\ UNCHANGED <<position, pack_pointers, pointer_sources>>
    /\ WriteFrame

WriteHex ==
    /\ pc = "write" /\ i <= Len(plines)
    /\ LineKind(plines[i]) = "hex"
    /\ LET d == decode_hex(SliceFrom(plines[i], 2))
       IN IF ~d.ok
          THEN /\ Fail([kind |-> "badhex", line |-> ErrLine(i)])
               /\ tells' = Told("none", FALSE)
               /\ UNCHANGED <<out, position>>
          ELSE IF Len(d.bytes) # HexWordBytes
          THEN /\ Fail([kind |-> "hexlen", line |-> ErrLine(i)])
               /\ tells' = Told("none", FALSE)
               /\ UNCHANGED <<out, position>>
          ELSE IF InBounds(out, position)
          THEN /\ out' = [out EXCEPT !.data[position] = d.bytes]
               /\ position' = Advance(position)
               /\ tells' = Told("bytes", TRUE)
               /\ i' = i + 1
               /\ UNCHANGED <<pc, k, result>>
          ELSE /\ Fail([kind |-> "container", line |-> i])
               /\ tells' = Told("bytes", FALSE)
               /\ UNCHANGED <<out, position>>
    /\ UNCHANGED <<pack_pointers, pointer_sources>>
    /\ WriteFrame

WriteString ==
    /\ pc = "write" /\ i <= Len(plines)
    /\ LineKind(plines[i]) = "string"
    /\ \E accepted \in ContainerAccepts(InBounds(out, position)) :
         IF accepted
         THEN /\ out' = [out EXCEPT !.text = MapPut(@, position, plines[i])]
              /\ position' = Advance(position)
              /\ tells' = Told("string", TRUE)
              /\ i' = i + 1
              /\ UNCHANGED <<pc, k, result>>
         ELSE /\ Fail([kind |-> "container", line |-> i])
              /\ tells' = Told("string", FALSE)
              /\ UNCHANGED <<out, position>>
    /\ UNCHANGED <<pack_pointers, pointer_sources>>
    /\ WriteFrame

\* one iteration of the write loop
WriteLine == WriteDest \/ WriteSrc \/ WriteLabel \/ WriteHex \/ WriteString

WriteEnd ==
    /\ pc = "write"
    /\ i > Len(plines)
    /\ pc' = "resolve"
    /\ k' = 1
    /\ UNCHANGED <<round, texts, text, plines, i, size, out, position,
                   pack_pointers, pointer_sources, tells, result>>
    /\ UNCHANGED unpackVars

\* one iteration of the resolution loop
ResolveStep ==
    /\ pc = "resolve"
    /\ k <= Len(pointer_sources)
    /\ LET a == pointer_sources[k][1]
           pointer_id == pointer_sources[k][2]
       IN IF pointer_id \in DOMAIN pack_pointers
          THEN LET dest == pack_pointers[pointer_id]
               IN \E accepted \in ContainerAccepts(dest < out.size) :
                    IF accepted
                    THEN /\ out' = [out EXCEPT !.ptr = MapPut(@, a, dest)]
                         /\ k' = k + 1
                         /\ UNCHANGED <<pc, result>>
                    ELSE /\ pc' = "failed"
                         /\ result' = [kind |-> "container", line |-> 0]
                         /\ UNCHANGED <<out, k>>
          ELSE /\ pc' = "failed"
               /\ result' = [kind |-> "unresolved", token |-> pointer_id]
               /\ UNCHANGED <<out, k>>
    /\ UNCHANGED <<round, texts, text, plines, i, size, position,
                   pack_pointers, pointer_sources, tells>>
    /\ UNCHANGED unpackVars

PackReturn ==
    /\ pc = "resolve"
    /\ k > Len(pointer_sources)
    /\ pc' = "packed"
    /\ result' = [kind |-> "ok"]
    /\ UNCHANGED <<round, texts, text, plines, i, size, out, position,
                   pack_pointers, pointer_sources, k, tells>>
    /\ UNCHANGED unpackVars

\* the packed archive is unpacked again
Reunpack ==
    /\ pc = "packed"
    /\ round = 1
    /\ round' = 2
    /\ archive' = out
    /\ addr' = 0
    /\ pointers' = EmptyMap
    /\ pointer_destinations' = EmptyMap
    /\ lines' = <<>>
    /\ origin' = <<>>
    /\ pc' = "discover"
    /\ UNCHANGED <<texts, input>>
    /\ UNCHANGED packVars

\* ------------------------------------------------------- specifications
PackIdle ==
    /\ text = <<>> /\ plines = <<>> /\ i = 1 /\ size = 0
    /\ out = NewArchive(0) /\ position = 0
    /\ pack_pointers = EmptyMap /\ pointer_sources = <<>>
    /\ k = 1 /\ tells = <<>> /\ result = NoResult

UnpackFresh ==
    /\ addr = 0 /\ pointers = EmptyMap /\ pointer_destinations = EmptyMap
    /\ lines = <<>> /\ origin = <<>> /\ texts = <<>> /\ round = 1

\* unpack an archive, pack the text, unpack the result
Init ==
    /\ \E n \in 0..MaxWords :
         \E cells \in [1..n -> Cells(WordSize * n)] : archive = MkArchive(cells)
    /\ input = archive
    /\ pc = "discover"
    /\ UnpackFresh
    /\ PackIdle

UnpackNext == DiscoverStep \/ DiscoverEnd \/ EmitStep \/ UnpackReturn

PackNext == PackStart \/ WriteLine \/ WriteEnd \/ ResolveStep \/ PackReturn

Next == UnpackNext \/ PackNext \/ Reunpack

Spec == Init /\ [][Next]_vars

\* the lines of the texts given to pack directly
L_empty == <<>>
L_dest0 == <<"D", "E", "S", "T", ":", " ", "0">>
L_src0 == <<" ", "S", "R", "C", ":", "0", "\t">>
L_src7 == <<"S", "R", "C", ":", " ", "7">>
L_label == <<"L", "A", "B", "E", "L", ":", " ", "a">>
L_hex == <<"0", "x", "D", "E", "A", "D", "b", "e", "e", "f">>
L_hexOdd == <<"0", "x", "A", "B", "C">>
L_hexShort == <<"0", "x", "A", "A", "B", "B", "C", "C">>
L_hexNone == <<"0", "x">>
L_hexLong == <<"0", "x", "A", "A", "B", "B", "C", "C", "D", "D", "E", "E">>
L_hexBad == <<"0", "x", "G", "G", "G", "G", "G", "G", "G", "G">>
L_str == <<"h", "i">>

LineSet == {L_empty, L_dest0, L_src0, L_src7, L_label, L_hex,
            L_hexOdd, L_hexShort, L_hexNone, L_hexLong, L_hexBad, L_str}

\* pack a text
InitPack ==
    /\ \E n \in 1..MaxLines : \E ls \in [1..n -> LineSet] : text = Join(ls)
    /\ pc = "input"
    /\ archive = NewArchive(0)
    /\ input = archive
    /\ UnpackFresh
    /\ plines = <<>> /\ i = 1 /\ size = 0
    /\ out = NewArchive(0) /\ position = 0
    /\ pack_pointers = EmptyMap /\ pointer_sources = <<>>
    /\ k = 1 /\ tells = <<>> /\ result = NoResult

SpecPack == InitPack /\ [][PackNext]_vars

\* ================================================================ claims
\* ------------------------------------------------------- unpack, helpers
Sources == DOMAIN archive.ptr

TargetSet == {archive.ptr[a] : a \in Sources}

FirstSource(t) ==
    CHOOSE a \in Sources :
        /\ archive.ptr[a] = t
        /\ \A b \in Sources : archive.ptr[b] = t => a <= b

DiscoveryDone == pc = "emit"

EmissionDone == pc = "emit" /\ addr >= archive.size

\* the indices of the emitted lines of address a, and of one slot of it
LinesOf(a) == {j \in 1..Len(origin) : origin[j].addr = a}

SlotOf(a, slot) == {j \in LinesOf(a) : origin[j].slot = slot}

ContentOf(a) == lines[CHOOSE j \in SlotOf(a, "content") : TRUE]

\* how many DEST lines with the text t were emitted
CountDest(t) ==
    Cardinality({j \in 1..Len(lines) : origin[j].slot = "dest" /\ lines[j] = t})

Min(S) == CHOOSE x \in S : \A y \in S : x <= y

\* C10: after the discovery pass every pointer target has an id, the ids in
\* use are exactly 0..n-1 for n distinct targets, distinct targets have
\* distinct ids, each source carries the id of its target, and the ids are
\* ordered as the targets' lowest-addressed sources are (not as the target
\* addresses are).
C10_IdAssignment ==
    DiscoveryDone =>
        /\ DOMAIN pointer_destinations = TargetSet
        /\ DOMAIN pointers = Sources
        /\ {pointer_destinations[t] : t \in TargetSet}
               = 0..(Cardinality(TargetSet) - 1)
        /\ \A t1, t2 \in TargetSet :
               t1 # t2 => pointer_destinations[t1] # pointer_destinations[t2]
        /\ \A a \in Sources : pointers[a] = pointer_destinations[archive.ptr[a]]
        /\ \A t1, t2 \in TargetSet :
               (pointer_destinations[t1] < pointer_destinations[t2])
                   <=> (FirstSource(t1) < FirstSource(t2))

\* two targets whose ids are in the opposite order of their addresses
C10_Witness ==
    /\ DiscoveryDone
    /\ \E t1, t2 \in TargetSet :
          t1 < t2 /\ pointer_destinations[t1] > pointer_destinations[t2]

\* the two SRC lines of sources a and b carry one id, and the output has
\* exactly n lines "DEST: <id>"
SharedId(a, b, n) ==
    \E id \in 0..Cardinality(Sources) :
        /\ ContentOf(a) = FmtSrc(id)
        /\ ContentOf(b) = FmtSrc(id)
        /\ CountDest(FmtDest(id)) = n

\* C2 as stated: two distinct sources with one destination get the same id
\* in their SRC lines and the output has exactly one DEST line of that id,
\* whatever the destination address is.
C2_AnyDestination ==
    EmissionDone =>
        \A a, b \in Sources :
            (a # b /\ archive.ptr[a] = archive.ptr[b]) => SharedId(a, b, 1)

\* C2 amended: two distinct sources with one destination get the same id in
\* their SRC lines; the output has exactly one DEST line of that id when the
\* destination is a word address below the archive size, and none otherwise.
C2_Dedup ==
    EmissionDone =>
        \A a, b \in Sources :
            (a # b /\ archive.ptr[a] = archive.ptr[b]) =>
                SharedId(a, b, IF archive.ptr[a] \in WordAddrs(archive.size)
                               THEN 1 ELSE 0)

\* two distinct sources share a destination that is a word of the archive
C2_Witness ==
    /\ EmissionDone
    /\ \E a, b \in Sources :
          /\ a # b
          /\ archive.ptr[a] = archive.ptr[b]
          /\ archive.ptr[a] \in WordAddrs(archive.size)

\* C6: an address where read_string reports a string gets exactly one content
\* line, the string text itself and not the SRC or hex line; when the address
\* is a pointer target its DEST line comes before the content line.
C6_StringPrecedence ==
    EmissionDone =>
        \A a \in WordAddrs(archive.size) :
            HasString(archive, a) =>
                /\ Cardinality(SlotOf(a, "content")) = 1
                /\ ContentOf(a) = archive.text[a]
                /\ a \notin DOMAIN pointers
                /\ ContentOf(a) # FormatHexWord(archive.data[a])
                /\ a \in TargetSet =>
                      \E d \in SlotOf(a, "dest") :
                          /\ lines[d] = FmtDest(pointer_destinations[a])
                          /\ \A c \in SlotOf(a, "content") : d < c

\* a string at an address that other addresses point at
C6_Witness ==
    /\ EmissionDone
    /\ \E a \in WordAddrs(archive.size) :
          /\ HasString(archive, a)
          /\ a \in TargetSet
          /\ archive.text[a] # <<>>

\* C9: the lines come in increasing address order; the lines of one address
\* are at most one DEST line (there exactly when the address is a pointer
\* target), then one LABEL line per label in stored order, then one content
\* line; the output has size/4 content lines, the k-th for address 4(k-1).
C9_EmissionOrder ==
    EmissionDone =>
        /\ Len(origin) = Len(lines)
        /\ \A j1, j2 \in 1..Len(origin) :
               j1 < j2 => origin[j1].addr <= origin[j2].addr
        /\ \A j \in 1..Len(origin) : origin[j].addr \in WordAddrs(archive.size)
        /\ \A a \in WordAddrs(archive.size) :
               LET nd == IF a \in TargetSet THEN 1 ELSE 0
                   ls == IF HasLabels(archive, a) THEN archive.labels[a] ELSE <<>>
                   g == Min(LinesOf(a))
               IN /\ LinesOf(a) = g..(g + nd + Len(ls))
                  /\ \A j \in g..(g + nd - 1) :
                        /\ origin[j].slot = "dest"
                        /\ lines[j] = FmtDest(pointer_destinations[a])
                  /\ \A m \in 1..Len(ls) :
                        /\ origin[g + nd + m - 1].slot = "label"
                        /\ lines[g + nd + m - 1] = FmtLabel(ls[m])
                  /\ origin[g + nd + Len(ls)].slot = "content"
        /\ LET cs == {j \in 1..Len(origin) : origin[j].slot = "content"}
           IN /\ Cardinality(cs) = archive.size \div WordSize
              /\ \A j \in cs :
                    origin[j].addr
                        = WordSize * Cardinality({j2 \in cs : j2 < j})

\* an address that is a pointer target and carries two labels
C9_Witness ==
    /\ EmissionDone
    /\ \E a \in WordAddrs(archive.size) :
          /\ a \in TargetSet
          /\ HasLabels(archive, a)
          /\ Len(archive.labels[a]) = 2
          /\ Cardinality(LinesOf(a)) = 4

\* --------------------------------------------------------- pack, helpers
\* pack has returned
PackOver == pc \in {"packed", "failed"}

\* the write pass has handled every line
WritePassDone == pc \in {"resolve", "packed"}

LineNos == 1..Len(plines)

IsDestLine(j) == StartsWith(plines[j], P_DEST)

IsSrcLine(j) == ~IsDestLine(j) /\ StartsWith(plines[j], P_SRC)

IsLabelLine(j) == StartsWith(plines[j], P_LABEL)

\* the id token a DEST or SRC line carries, by the line grammar
TokenOf(j) ==
    IF IsDestLine(j) THEN Trim(SubSeq(plines[j], 6, Len(plines[j])))
    ELSE Trim(SubSeq(plines[j], 5, Len(plines[j])))

\* the SRC lines whose token no DEST line of the text carries
UnresolvedLines ==
    {j \in LineNos :
        IsSrcLine(j) /\ ~\E d \in LineNos : IsDestLine(d) /\ TokenOf(d) = TokenOf(j)}

HexChars == {"0", "1", "2", "3", "4", "5", "6", "7", "8", "9",
             "A", "B", "C", "D", "E", "F", "a", "b", "c", "d", "e", "f"}

IsHexLine(j) == StartsWith(plines[j], P_HEX)

HexRest(j) == SubSeq(plines[j], 3, Len(plines[j]))

OddHex(j) == IsHexLine(j) /\ Len(HexRest(j)) % 2 = 1

\* an even-length remainder with a pair from_str_radix rejects
BadDigits(j) ==
    /\ IsHexLine(j) /\ ~OddHex(j)
    /\ \E m \in 1..(Len(HexRest(j)) \div 2) :
          LET c1 == HexRest(j)[2 * m - 1]
              c2 == HexRest(j)[2 * m]
          IN ~((c1 \in HexChars \/ c1 = "+") /\ c2 \in HexChars)

\* a remainder that decodes, to a number of bytes other than 4
WrongLength(j) ==
    /\ IsHexLine(j) /\ ~OddHex(j) /\ ~BadDigits(j)
    /\ Len(HexRest(j)) # 2 * HexWordBytes

HexError(r) == r.kind \in {"badhex", "hexlen"}

\* C3 as stated: when the text has a SRC line whose token no DEST line
\* carries and no hex error occurs, pack returns the unresolved-pointer error
\* naming that line's token.  (Read in the claim's favour: a run in which the
\* container rejects a write is left out as well.)
C3_NamesEveryToken ==
    (PackOver /\ ~HexError(result) /\ result.kind # "container") =>
        \A j \in UnresolvedLines :
            result = [kind |-> "unresolved", token |-> TokenOf(j)]

\* C3 amended: when the text has a SRC line whose token no DEST line carries,
\* pack returns an error and no archive; unless that error is a hex error or
\* a container error raised earlier, it is the unresolved-pointer error
\* naming the token of the first such SRC line in text order.
C3_Unresolved ==
    (PackOver /\ UnresolvedLines # {}) =>
        /\ pc = "failed"
        /\ result.kind \in {"badhex", "hexlen", "container", "unresolved"}
        /\ result.kind = "unresolved" =>
              result.token = TokenOf(Min(UnresolvedLines))

\* two SRC lines with different tokens that no DEST line carries, and the
\* unresolved-pointer error
C3_Witness ==
    /\ pc = "failed"
    /\ result.kind = "unresolved"
    /\ \E j1, j2 \in UnresolvedLines : TokenOf(j1) # TokenOf(j2)

\* C4 as stated: pack fails on the first line that starts with 0x and whose
\* remainder has odd length or decodes to a number of bytes other than 4, and
\* the error carries that line's 1-based index.
C4_FirstOddOrWrongLength ==
    LET bad == {j \in LineNos : OddHex(j) \/ WrongLength(j)}
    IN (PackOver /\ bad # {}) =>
           /\ pc = "failed"
           /\ HexError(result)
           /\ result.line = Min(bad)

\* C4 amended: when the text has a line that starts with 0x and whose
\* remainder has odd length, holds a pair that is no hex byte, or decodes to a
\* number of bytes other than 4, pack fails and returns no archive; the
\* error is raised on the first such line and carries its 1-based index in
\* the newline-split text (a decode error for odd length or a bad pair, a
\* length error otherwise), unless the container rejected a write on an
\* earlier line.
C4_HexFailure ==
    LET bad == {j \in LineNos : OddHex(j) \/ BadDigits(j) \/ WrongLength(j)}
    IN (PackOver /\ bad # {}) =>
           /\ pc = "failed"
           /\ \/ /\ result.kind = "container"
                 /\ result.line < Min(bad)
              \/ /\ result.line = Min(bad)
                 /\ result.kind = IF WrongLength(Min(bad)) THEN "hexlen" ELSE "badhex"

\* a hex error on a line that follows a DEST, a LABEL and an empty line
C4_Witness ==
    /\ pc = "failed"
    /\ HexError(result)
    /\ result.line = 4
    /\ \E j \in 1..3 : IsDestLine(j)
    /\ \E j \in 1..3 : IsLabelLine(j)
    /\ \E j \in 1..3 : plines[j] = <<>>

\* what line j's step of the write pass found and did
TellOf(j) == tells[j]

\* the cursor after line j's step
CursorAfter(j) == IF j < Len(tells) THEN tells[j + 1].at ELSE position

\* the last DEST line carrying the token of line j
LastDest(j) ==
    CHOOSE d \in LineNos :
        /\ IsDestLine(d) /\ TokenOf(d) = TokenOf(j)
        /\ \A d2 \in LineNos :
              (IsDestLine(d2) /\ TokenOf(d2) = TokenOf(j)) => d2 <= d

\* the lines after line j that are counted into the size
CountedAfter(j) == {n \in LineNos : n > j /\ IsCounted(plines[n])}

\* C8 as stated: after a successful pack the word of every SRC line holds a
\* pointer to the address recorded at the DEST line with the same token,
\* before or after it, and that address is the address of the next
\* content-bearing line after the DEST line.
C8_AnyDestLine ==
    pc = "packed" =>
        \A sl \in LineNos : IsSrcLine(sl) =>
            \A d \in LineNos : (IsDestLine(d) /\ TokenOf(d) = TokenOf(sl)) =>
                /\ TellOf(sl).at \in DOMAIN out.ptr
                /\ out.ptr[TellOf(sl).at] = TellOf(d).at
                /\ CountedAfter(d) # {}
                /\ TellOf(Min(CountedAfter(d))).at = TellOf(d).at

\* C8 amended: after a successful pack the word of every SRC line holds a
\* pointer to the address recorded at the last DEST line (in text order) with
\* the same token, before or after the SRC line; the recorded address is the
\* cursor at the DEST line: 4 times the number of earlier lines that are
\* neither DEST nor LABEL lines.
C8_PointerResolution ==
    pc = "packed" =>
        /\ Len(tells) = Len(plines)
        /\ \A j \in LineNos : TellOf(j).line = j
        /\ \A sl \in LineNos : IsSrcLine(sl) =>
              /\ TellOf(sl).at \in DOMAIN out.ptr
              /\ out.ptr[TellOf(sl).at] = TellOf(LastDest(sl)).at
        /\ \A d \in LineNos : IsDestLine(d) =>
              TellOf(d).at = WordSize * Cardinality(
                  {n \in 1..(d - 1) : ~IsDestLine(n) /\ ~IsLabelLine(n)})

\* a forward reference to the second of two DEST lines with one token
C8_Witness ==
    /\ pc = "packed"
    /\ \E sl, d1, d2 \in LineNos :
          /\ IsSrcLine(sl) /\ IsDestLine(d1) /\ IsDestLine(d2)
          /\ d1 < sl /\ sl < d2
          /\ TokenOf(d1) = TokenOf(sl) /\ TokenOf(d2) = TokenOf(sl)
          /\ TellOf(d1).at # TellOf(d2).at

\* C7: in the write pass the cursor starts at 0, advances by 4 on a line that
\* is counted into the size and not at all on a DEST, LABEL or empty line, an
\* empty line writes nothing, the cursor never exceeds the allocated size, and
\* at the end of a write pass without error the cursor equals the size.
C7_CursorInvariant ==
    pc \in {"write", "resolve", "packed", "failed"} =>
        /\ size = WordSize * Cardinality({j \in LineNos :
                      ~IsLabelLine(j) /\ ~IsDestLine(j) /\ plines[j] # <<>>})
        /\ out.size = size
        /\ position <= size
        /\ Len(tells) > 0 => tells[1].at = 0
        /\ \A j \in 1..Len(tells) :
              /\ (tells[j].ok /\ IsCounted(plines[j]))
                    => CursorAfter(j) = tells[j].at + WordSize
              /\ ~IsCounted(plines[j]) => CursorAfter(j) = tells[j].at
              /\ plines[j] = <<>> => tells[j].op \notin {"u32", "bytes", "string"}
        /\ WritePassDone => position = size

\* C5: unpack of an archive of size 0 returns the empty text, and pack of the
\* empty text succeeds and returns an archive of length 0, without any write
\* and with the cursor at 0.
C5_EmptyArchive ==
    /\ (Len(texts) >= 1 /\ input.size = 0) => texts[1] = <<>>
    /\ (pc \in {"write", "resolve", "packed", "failed"} /\ text = <<>>) =>
          /\ pc # "failed"
          /\ out.size = 0
          /\ position = 0
          /\ \A j \in 1..Len(tells) : tells[j].op \notin {"u32", "bytes", "string"}

\* no address of the archive holds both a label and a pointer
NoLabelledPointer(ar) == (DOMAIN ar.ptr) \cap (DOMAIN ar.labels) = {}

\* C1: for an archive in which no address holds both a label and a pointer,
\* pack of the unpacked text succeeds and unpacking the packed archive gives
\* the same text again.
C1_RoundTrip ==
    NoLabelledPointer(input) =>
        /\ pc # "failed"
        /\ Len(texts) = 2 => texts[2] = texts[1]

====
